---- MODULE Spec2Model ----
(***************************************************************************)
(* Declarative reconciliation of Kibana data views:                        *)
(* DataViewsAPI.sync (src/iac/kibana/src/api/dataviews.py) run against a   *)
(* remote collection keyed by resource name.  One action per network call  *)
(* of a sync run; the remote's answer (status, whether the create response *)
(* carries an id) is the nondeterministic input of each action.            *)
(***************************************************************************)
EXTENDS Integers, Sequences, FiniteSets, TLC

(* ------------------------------ bounds -------------------------------- *)
MaxLen == 2        \* longest desired list
MaxHttpCalls == 2  \* calls of client methods in a row (SpecHttp only)
MaxRuns == 2       \* successive sync runs against the same remote
MaxExternal == 1   \* writes by another actor during the runs (SpecRace only)
MaxNameLen == 3    \* characters of a name handed to as_payload (SpecPayload only)

(* ------------------------- values of the program ---------------------- *)
Names == {"A", "B"}
NoName == ""                 \* dv.get("name") is None or "" (falsy)
NoneTitle == "<None>"        \* title: str | None = None
Titles == {NoneTitle, "", "t"}
NoId == 0                    \* dv_obj.get("id") is None (falsy); remote ids are 1, 2, ...

\* DataViewSpec, reduced to the fields sync reads; refresh_fields keeps its
\* default (False) here and varies in ScenarioSpecs
Specs == [name : Names, title : Titles, refresh_fields : {FALSE}]

\* Python truthiness of spec.title
Truthy(title) == title \notin {NoneTitle, ""}

\* HTTP statuses the remote answers with
StOk == 200
StNotFound == 404
StError == 500
StMoved == 301

\* the statuses the list call is answered with
ListStatuses == {StOk, StMoved, StNotFound, StError}

\* raise_for_status() that raises for server errors only
RaiseOnServerError(status) == status >= 500

\* Response.raise_for_status(): raises unless the status is a success (2xx)
RaiseForStatus(status) == ~(status \in 200..299)

\* create(): raises HTTPStatusError when r.status_code >= 400
CreateRaises(status) == status >= 400

\* delete() without the 404 exemption
DeleteRaisesOn404(status) == RaiseForStatus(status)

\* delete() that lets every status pass
DeleteNeverRaises(status) == FALSE

\* delete(): raise_for_status() unless status in (200, 202, 204, 404)
DeleteRaises(status) == status \notin {200, 202, 204, 404} /\ RaiseForStatus(status)

VARIABLES
    desired,           \* the list handed to sync (the same for every run)
    remote,            \* the remote collection: set of [id, name]
    nextId,            \* next id the remote assigns
    defaultId,         \* the remote's default data view id (NoId: none set)
    pc,                \* position of the run
    run,               \* number of the current run
    existing_by_name,  \* snapshot: items of the dict, in insertion order
    i,                 \* index into desired of the upsert loop
    j,                 \* index into existing_by_name of the prune loop
    view_id,           \* id of the create response awaiting its update
    created, updated, deleted, skipped,
    first_view_id,
    calls,             \* network calls of the current run, in order
    result,            \* what the caller of the current run received
    prev,              \* what the caller of the previous run received
    ext                \* the writes of other actors so far, in order

vars == <<desired, remote, nextId, defaultId, pc, run, existing_by_name, i, j,
          view_id, created, updated, deleted, skipped, first_view_id, calls,
          result, prev, ext>>

(* ------------------------------ helpers ------------------------------- *)
\* the caller has received nothing (yet)
NoResult == [kind |-> "none"]

SeqsUpTo(S, n) == UNION {[1..k -> S] : k \in 0..n}

RECURSIVE SeqOfSet(_)
\* the list response: the collection's resources, by ascending id
SeqOfSet(S) ==
    IF S = {} THEN <<>>
    ELSE LET m == CHOOSE r \in S : \A q \in S : r.id <= q.id
         IN <<m>> \o SeqOfSet(S \ {m})

\* {dv.get("name"): dv for dv in list}: a key keeps the position of its first
\* occurrence and the value of its last
ByName(lst) ==
    LET firstAt(k) == \A m \in 1..(k - 1) : lst[m].name # lst[k].name
        lastOf(n) == lst[CHOOSE k \in 1..Len(lst) :
                           /\ lst[k].name = n
                           /\ \A m \in (k + 1)..Len(lst) : lst[m].name # n]
        keep == SelectSeq([k \in 1..Len(lst) |-> [pos |-> k, dv |-> lst[k]]],
                          LAMBDA e : firstAt(e.pos))
    IN [k \in 1..Len(keep) |-> lastOf(keep[k].dv.name)]

\* desired_names = {d.name for d in desired}
desired_names == {desired[k].name : k \in 1..Len(desired)}

\* keys of existing_by_name
ExistingNames == {existing_by_name[k].name : k \in 1..Len(existing_by_name)}

RemoteIds == {r.id : r \in remote}
RemoteNames == {r.name : r \in remote} \ {NoName}

\* the remote's create with override: a resource of that name is replaced in
\* place (it keeps its id); otherwise a new resource gets the next id
RemoteIdOf(name) ==
    IF \E r \in remote : r.name = name
    THEN (CHOOSE r \in remote : r.name = name).id
    ELSE nextId

\* _headers without the `if xsrf` branch of lines 45-46
HeadersNoXsrf(xsrf) == {"Authorization"}

\* KibanaHTTP._headers: the names of the headers of a request
Headers(xsrf) == {"Authorization"} \cup (IF xsrf THEN {"kbn-xsrf"} ELSE {})

\* one request of the run and the status it was answered with
Call(op, idx, id, status) == [op |-> op, idx |-> idx, id |-> id, status |-> status]

\* one write of another actor: what it did to which resource
ExternalWrite(op, r) == [op |-> op, id |-> r.id, name |-> r.name]

\* the update that always asks for a refresh of the fields
RefreshAlways(spec) == TRUE

\* line 122: refresh_fields=spec.refresh_fields
RefreshFields(spec) == spec.refresh_fields

\* created = [resp] in place of created.append(resp)
RecordCreatedReplace(resp) == <<resp>>

\* line 126: created.append(resp)
RecordCreated(resp) == Append(created, resp)

\* where the run goes after the upsert loop has advanced to index n
PcAfterUpsert(n, snapshot) ==
    IF n <= Len(desired) THEN "upsert"
    ELSE IF Len(snapshot) >= 1 THEN "prune" ELSE "default"

\* where the run goes after the prune loop has advanced to index n
PcAfterPrune(n) == IF n <= Len(existing_by_name) THEN "prune" ELSE "default"

Report == [kind |-> "report", created |-> created, updated |-> updated,
           deleted |-> deleted, skipped |-> skipped, default |-> first_view_id]

Raised(op, status) == [kind |-> "error", op |-> op, status |-> status]

\* the skip test with a deduplication of names: a spec whose name an earlier
\* spec of desired has is skipped too
MissingTitleOrRepeated(spec) ==
    \/ ~Truthy(spec.title) /\ spec.name \notin ExistingNames
    \/ \E k \in 1..(i - 1) : desired[k].name = spec.name

\* the skip test without the look-up in the snapshot
MissingTitleOnly(spec) == ~Truthy(spec.title)

\* line 115: not spec.title and spec.name not in existing_by_name
MissingTitle(spec) == ~Truthy(spec.title) /\ spec.name \notin ExistingNames

\* line 116: skipped.append({"reason": "missing_title", "name": spec.name})
SkipEntry(spec) == [reason |-> "missing_title", name |-> spec.name]

\* the candidate overwritten by every update: the last one wins
FirstViewIdLast(current, id) == id

\* lines 123-124: if first_view_id is None: first_view_id = view_id
FirstViewId(current, id) == IF current = NoId THEN id ELSE current

\* the prune test that stops at the resources of the lowest id
PrunableFirstOnly(dv) ==
    /\ dv.name # NoName /\ dv.name \notin desired_names /\ dv.id # NoId
    /\ \A m \in 1..Len(existing_by_name) : existing_by_name[m].id >= dv.id

\* the prune test made against the snapshot's own names: nothing is pruned
PrunableAgainstSnapshot(dv) ==
    dv.name # NoName /\ dv.name \notin ExistingNames /\ dv.id # NoId

\* the prune test that looks again: a resource another actor wrote to
\* since the snapshot is left alone
PrunableRevalidated(dv) ==
    /\ dv.name # NoName /\ dv.name \notin desired_names /\ dv.id # NoId
    /\ \A w \in 1..Len(ext) : ext[w].id # dv.id

\* the prune test without the comparison with desired_names
PrunableAll(dv) == dv.name # NoName /\ dv.id # NoId

\* line 131: name and name not in desired_names and (view_id := dv.get("id"))
Prunable(dv) == dv.name # NoName /\ dv.name \notin desired_names /\ dv.id # NoId

\* the entry records the name in place of the id
DeletedEntryNoId(dv) == [id |-> NoId, name |-> dv.name]

\* line 133: deleted.append({"id": view_id, "name": name})
DeletedEntry(dv) == [id |-> dv.id, name |-> dv.name]

(* ------------------------------- Init --------------------------------- *)
\* the remote collections a run may find: names are unique, ids are assigned
InitialRemotes ==
    {{[id |-> 1, name |-> "A"]}, {}} \X {{[id |-> 2, name |-> "B"]}, {}}
        \X {{[id |-> 3, name |-> NoName]}, {}}

Init ==
    /\ desired \in SeqsUpTo(Specs, MaxLen)
    /\ \E t \in InitialRemotes : remote = t[1] \cup t[2] \cup t[3]
    /\ nextId = 4
    /\ defaultId = NoId
    /\ pc = "idle"
    /\ run = 1
    /\ existing_by_name = <<>>
    /\ i = 1
    /\ j = 1
    /\ view_id = NoId
    /\ created = <<>>
    /\ updated = <<>>
    /\ deleted = <<>>
    /\ skipped = <<>>
    /\ first_view_id = NoId
    /\ calls = <<>>
    /\ result = NoResult
    /\ prev = NoResult
    /\ ext = <<>>

(* ------------------------------ actions ------------------------------- *)
\* list_views() at the start of sync, then the locals of lines 106-113
List ==
    /\ pc = "idle"
    /\ \E status \in ListStatuses :
        /\ calls' = Append(calls, Call("list", 0, NoId, status)
                                      @@ [method |-> "GET", headers |-> Headers(FALSE)])
        /\ IF RaiseForStatus(status)
           THEN /\ pc' = "raised"
                /\ result' = Raised("list", status)
                /\ UNCHANGED existing_by_name
           ELSE /\ existing_by_name' = ByName(SeqOfSet(remote))
                /\ pc' = PcAfterUpsert(1, ByName(SeqOfSet(remote)))
                /\ UNCHANGED result
    /\ UNCHANGED <<desired, remote, nextId, defaultId, run, i, j, view_id, created,
                   updated, deleted, skipped, first_view_id, prev, ext>>

\* lines 115-117: no title and no observed resource of that name
Skip ==
    /\ pc = "upsert"
    /\ MissingTitle(desired[i])
    /\ skipped' = Append(skipped, SkipEntry(desired[i]))
    /\ i' = i + 1
    /\ pc' = PcAfterUpsert(i + 1, existing_by_name)
    /\ UNCHANGED <<desired, remote, nextId, defaultId, run, existing_by_name, j,
                   view_id, created, updated, deleted, first_view_id, calls,
                   result, prev, ext>>

\* lines 119-121 and 125-128: create(spec, override=True) and the branch on
\* the id of the response
Create ==
    /\ pc = "upsert"
    /\ ~MissingTitle(desired[i])
    /\ \E status \in {StOk, StError}, hasId \in BOOLEAN :
        LET rid == RemoteIdOf(desired[i].name)
            resp == [name |-> desired[i].name, id |-> IF hasId THEN rid ELSE NoId]
        IN
        /\ calls' = Append(calls, Call("create", i, NoId, status)
                                      @@ [method |-> "POST", headers |-> Headers(TRUE),
                                          override |-> TRUE,
                                          resp_id |-> IF CreateRaises(status)
                                                      THEN NoId ELSE resp.id])
        /\ IF CreateRaises(status)
           THEN /\ hasId    \* the error response carries no data view: one case
                /\ pc' = "raised"
                /\ result' = Raised("create", status)
                /\ UNCHANGED <<remote, nextId, view_id, created, i>>
           ELSE /\ remote' = {r \in remote : r.name # desired[i].name}
                                \cup {[id |-> rid, name |-> desired[i].name]}
                /\ nextId' = IF rid = nextId THEN nextId + 1 ELSE nextId
                /\ UNCHANGED result
                /\ IF resp.id # NoId
                   THEN /\ view_id' = resp.id
                        /\ pc' = "update"
                        /\ UNCHANGED <<created, i>>
                   ELSE /\ created' = RecordCreated(resp)
                        /\ i' = i + 1
                        /\ pc' = PcAfterUpsert(i + 1, existing_by_name)
                        /\ UNCHANGED view_id
    /\ UNCHANGED <<desired, defaultId, run, existing_by_name, j, updated, deleted,
                   skipped, first_view_id, prev, ext>>

\* lines 122-124: update(view_id, spec, refresh_fields=...) after a create
\* whose response carried an id; its response is recorded under updated
Update ==
    /\ pc = "update"
    /\ \E status \in (IF view_id \in RemoteIds THEN {StOk, StError} ELSE {StNotFound}) :
        /\ calls' = Append(calls, Call("update", i, view_id, status)
                                      @@ [method |-> "POST", headers |-> Headers(TRUE),
                                          refresh_fields |-> RefreshFields(desired[i])])
        /\ IF RaiseForStatus(status)
           THEN /\ pc' = "raised"
                /\ result' = Raised("update", status)
                /\ UNCHANGED <<updated, first_view_id, i>>
           ELSE /\ updated' = Append(updated, [name |-> desired[i].name, id |-> view_id])
                /\ first_view_id' = FirstViewId(first_view_id, view_id)
                /\ i' = i + 1
                /\ pc' = PcAfterUpsert(i + 1, existing_by_name)
                /\ UNCHANGED result
    /\ UNCHANGED <<desired, remote, nextId, defaultId, run, existing_by_name, j,
                   view_id, created, deleted, skipped, prev, ext>>

\* lines 130-131, condition false: the item is left alone
PruneSkip ==
    /\ pc = "prune"
    /\ ~Prunable(existing_by_name[j])
    /\ j' = j + 1
    /\ pc' = PcAfterPrune(j + 1)
    /\ UNCHANGED <<desired, remote, nextId, defaultId, run, existing_by_name, i,
                   view_id, created, updated, deleted, skipped, first_view_id,
                   calls, result, prev, ext>>

\* lines 130-133: delete(view_id) and its entry in deleted
Delete ==
    /\ pc = "prune"
    /\ Prunable(existing_by_name[j])
    /\ LET dv == existing_by_name[j] IN
       \E status \in (IF dv.id \in RemoteIds THEN {StOk, StError} ELSE {StNotFound}) :
        /\ calls' = Append(calls, Call("delete", 0, dv.id, status)
                                      @@ [method |-> "DELETE", headers |-> Headers(TRUE)])
        /\ IF DeleteRaises(status)
           THEN /\ pc' = "raised"
                /\ result' = Raised("delete", status)
                /\ UNCHANGED <<remote, deleted, j>>
           ELSE /\ remote' = {r \in remote : r.id # dv.id}
                /\ deleted' = Append(deleted, DeletedEntry(dv))
                /\ j' = j + 1
                /\ pc' = PcAfterPrune(j + 1)
                /\ UNCHANGED result
    /\ UNCHANGED <<desired, nextId, defaultId, run, existing_by_name, i, view_id,
                   created, updated, skipped, first_view_id, prev, ext>>

\* set_default without the try/except: its failure leaves sync as an error
SetDefaultUnshielded ==
    /\ pc = "default"
    /\ first_view_id # NoId
    /\ \E status \in (IF first_view_id \in RemoteIds THEN {StOk, StError} ELSE {StNotFound}) :
        /\ calls' = Append(calls, Call("set_default", 0, first_view_id, status)
                                      @@ [method |-> "POST", headers |-> Headers(TRUE),
                                          force |-> TRUE])
        /\ IF RaiseForStatus(status)
           THEN /\ result' = Raised("set_default", status)
                /\ pc' = "raised"
                /\ UNCHANGED defaultId
           ELSE /\ defaultId' = first_view_id
                /\ result' = Report
                /\ pc' = "returned"
    /\ UNCHANGED <<desired, remote, nextId, run, existing_by_name, i, j, view_id,
                   created, updated, deleted, skipped, first_view_id, prev, ext>>

\* lines 136-142: set_default(first_view_id, force=True) inside try/except,
\* then the report is returned
SetDefault ==
    /\ pc = "default"
    /\ first_view_id # NoId
    /\ \E status \in (IF first_view_id \in RemoteIds THEN {StOk, StError} ELSE {StNotFound}) :
        /\ calls' = Append(calls, Call("set_default", 0, first_view_id, status)
                                      @@ [method |-> "POST", headers |-> Headers(TRUE),
                                          force |-> TRUE])
        /\ IF RaiseForStatus(status)
           THEN /\ skipped' = Append(skipped, [reason |-> "set_default_failed",
                                               error |-> status])
                /\ result' = [Report EXCEPT !.skipped = skipped']
                /\ UNCHANGED defaultId
           ELSE /\ defaultId' = first_view_id
                /\ result' = Report
                /\ UNCHANGED skipped
    /\ pc' = "returned"
    /\ UNCHANGED <<desired, remote, nextId, run, existing_by_name, i, j, view_id,
                   created, updated, deleted, first_view_id, prev, ext>>

\* lines 136 and 142: no default candidate, the report is returned
NoDefault ==
    /\ pc = "default"
    /\ first_view_id = NoId
    /\ result' = Report
    /\ pc' = "returned"
    /\ UNCHANGED <<desired, remote, nextId, defaultId, run, existing_by_name, i, j,
                   view_id, created, updated, deleted, skipped, first_view_id,
                   calls, prev, ext>>

\* run_sync is invoked again with the same configuration after a run that
\* returned its report: a new call of sync starts from fresh locals
Rerun ==
    /\ pc = "returned"
    /\ run < MaxRuns
    /\ run' = run + 1
    /\ prev' = result
    /\ result' = NoResult
    /\ pc' = "idle"
    /\ existing_by_name' = <<>>
    /\ i' = 1
    /\ j' = 1
    /\ view_id' = NoId
    /\ created' = <<>>
    /\ updated' = <<>>
    /\ deleted' = <<>>
    /\ skipped' = <<>>
    /\ first_view_id' = NoId
    /\ calls' = <<>>
    /\ UNCHANGED <<desired, remote, nextId, defaultId, ext>>

\* another actor deletes a resource of the remote collection while a run is
\* between its list call and the end of its prune step
ExternalDelete ==
    /\ pc \in {"upsert", "update", "prune"}
    /\ Len(ext) < MaxExternal
    /\ \E r \in remote :
        /\ remote' = remote \ {r}
        /\ ext' = Append(ext, ExternalWrite("delete", r))
    /\ UNCHANGED <<desired, nextId, defaultId, pc, run, existing_by_name, i, j,
                   view_id, created, updated, deleted, skipped, first_view_id,
                   calls, result, prev>>

\* another actor creates a data view between two calls of sync, or
\* recreates one: under the id the name has on the remote, or under a new id
ExternalCreate ==
    /\ pc \in {"upsert", "update", "prune"}
    /\ Len(ext) < MaxExternal
    /\ \E name \in Names : \E id \in {RemoteIdOf(name), nextId} :
        LET r == [id |-> id, name |-> name] IN
        /\ remote' = {x \in remote : x.name # name} \cup {r}
        /\ nextId' = IF id = nextId THEN nextId + 1 ELSE nextId
        /\ ext' = Append(ext, ExternalWrite("create", r))
    /\ UNCHANGED <<desired, defaultId, pc, run, existing_by_name, i, j,
                   view_id, created, updated, deleted, skipped, first_view_id,
                   calls, result, prev>>

\* one step of a sync run
Step ==
    \/ List
    \/ Skip
    \/ Create
    \/ Update
    \/ PruneSkip
    \/ Delete
    \/ SetDefault
    \/ NoDefault

Next == Step \/ Rerun

\* sync is the only writer of the remote collection; it is run up to MaxRuns
\* times in succession
Spec == Init /\ [][Next]_vars

NextRace == Step \/ ExternalDelete \/ ExternalCreate

\* one sync run during which another actor may write to the remote collection
SpecRace == Init /\ [][NextRace]_vars

\* the specs of the end-to-end scenario (A with a title, B without) and their
\* variants
ScenarioSpecs == [name : {"A", "B"}, title : {"a", NoneTitle}, refresh_fields : BOOLEAN]

\* the remote collection of the end-to-end scenario: B with id 1, C with id 2
ScenarioRemote == {[id |-> 1, name |-> "B"], [id |-> 2, name |-> "C"]}

InitScenario ==
    /\ desired \in SeqsUpTo(ScenarioSpecs, MaxLen)
    /\ remote = ScenarioRemote
    /\ nextId = 4
    /\ defaultId = NoId
    /\ pc = "idle"
    /\ run = 1
    /\ existing_by_name = <<>>
    /\ i = 1
    /\ j = 1
    /\ view_id = NoId
    /\ created = <<>>
    /\ updated = <<>>
    /\ deleted = <<>>
    /\ skipped = <<>>
    /\ first_view_id = NoId
    /\ calls = <<>>
    /\ result = NoResult
    /\ prev = NoResult
    /\ ext = <<>>

\* sync runs against the remote collection of the end-to-end scenario
SpecScenario == InitScenario /\ [][Next]_vars

(* ------------------- the client methods on their own ------------------ *)
\* statuses of every class, with the ones delete() names
HttpStatuses == {100, 200, 201, 202, 204, 301, 304, 400, 401, 403, 404, 409, 500, 503}

\* the method returned (a JSON body for create, nothing for delete)
Returns(op, status) == [kind |-> "returned", op |-> op, status |-> status]

\* r.json() met a body that is no JSON: a ValueError without a status
NotJson(op) == [kind |-> "error", op |-> op, status |-> NoId, what |-> "json"]

\* DataViewsAPI.create called on its own: one POST, then the status test of
\* line 67 and r.json()
HttpCreate ==
    /\ pc = "http"
    /\ Len(calls) < MaxHttpCalls
    /\ \E status \in HttpStatuses, json \in BOOLEAN :
        /\ calls' = Append(calls, Call("create", 0, NoId, status)
                                      @@ [method |-> "POST", headers |-> Headers(TRUE)])
        /\ result' = IF CreateRaises(status) THEN Raised("create", status)
                      ELSE IF json THEN Returns("create", status)
                      ELSE NotJson("create")
    /\ UNCHANGED <<desired, remote, nextId, defaultId, pc, run, existing_by_name, i, j,
                   view_id, created, updated, deleted, skipped, first_view_id,
                   prev, ext>>

\* DataViewsAPI.delete called on its own: one DELETE, then lines 90-91
HttpDelete ==
    /\ pc = "http"
    /\ Len(calls) < MaxHttpCalls
    /\ \E status \in HttpStatuses, id \in 1..2 :
        /\ calls' = Append(calls, Call("delete", 0, id, status)
                                      @@ [method |-> "DELETE", headers |-> Headers(TRUE)])
        /\ result' = IF DeleteRaises(status) THEN Raised("delete", status)
                      ELSE Returns("delete", status)
    /\ UNCHANGED <<desired, remote, nextId, defaultId, pc, run, existing_by_name, i, j,
                   view_id, created, updated, deleted, skipped, first_view_id,
                   prev, ext>>

InitHttp ==
    /\ desired = <<>>
    /\ remote = {}
    /\ nextId = 4
    /\ defaultId = NoId
    /\ pc = "http"
    /\ run = 1
    /\ existing_by_name = <<>>
    /\ i = 1
    /\ j = 1
    /\ view_id = NoId
    /\ created = <<>>
    /\ updated = <<>>
    /\ deleted = <<>>
    /\ skipped = <<>>
    /\ first_view_id = NoId
    /\ calls = <<>>
    /\ result = NoResult
    /\ prev = NoResult
    /\ ext = <<>>

NextHttp == HttpCreate \/ HttpDelete

\* create and delete called on their own, answered with any status
SpecHttp == InitHttp /\ [][NextHttp]_vars

(* ================= DataViewSpec.as_payload on its own ================= *)

\* the characters of a name: an upper-case and a lower-case letter, two
\* characters that \W matches, and the underscore, which \w matches
Alphabet == {"K", "k", " ", "-", "_"}

Word == {"K", "k", "_"}

NonWord == Alphabet \ Word

\* a title that was not given (None), as a text
NoneText == <<"<None>">>

TruthyText(t) == t # NoneText /\ t # <<>>

TextsUpTo(n) == UNION {[1..m -> Alphabet] : m \in 0..n}

PayloadSpecs ==
    [name : TextsUpTo(MaxNameLen),
     title : {NoneText, <<>>, <<"t">>, <<"_", "T", "_">>},
     refresh_fields : {FALSE}]

\* str.lower
Lower(t) == [k \in 1..Len(t) |-> IF t[k] = "K" THEN "k" ELSE t[k]]

\* re.sub(class+, "_", t): every maximal run of characters of the class
\* becomes one underscore
RECURSIVE Sub(_, _)
Sub(class, t) ==
    IF t = <<>> THEN <<>>
    ELSE IF Head(t) \in class
         THEN IF Len(t) > 1 /\ t[2] \in class
              THEN Sub(class, Tail(t))
              ELSE <<"_">> \o Sub(class, Tail(t))
         ELSE <<Head(t)>> \o Sub(class, Tail(t))

\* line 24 without .strip("_")
NoStrip(t) == t

\* str.strip("_")
RECURSIVE Strip(_)
Strip(t) ==
    IF t = <<>> THEN <<>>
    ELSE IF Head(t) = "_" THEN Strip(Tail(t))
    ELSE IF t[Len(t)] = "_" THEN Strip(SubSeq(t, 1, Len(t) - 1))
    ELSE t

\* lines 23-24
Slug(name) == Strip(Sub({"_"}, Sub(NonWord, Lower(name))))

\* lines 22-27
DerivedTitle(spec) ==
    IF ~TruthyText(spec.title) /\ spec.name # <<>>
    THEN IF Slug(spec.name) # <<>> THEN Slug(spec.name) ELSE spec.name
    ELSE NoneText

\* lines 20 and 29: the name and the title of the payload
as_payload(spec) ==
    [kind |-> "payload",
     name |-> spec.name,
     title |-> IF TruthyText(spec.title) THEN spec.title ELSE DerivedTitle(spec)]

AsPayload ==
    /\ pc = "payload"
    /\ result' = as_payload(desired[1])
    /\ pc' = "built"
    /\ UNCHANGED <<desired, remote, nextId, defaultId, run, existing_by_name, i, j,
                   view_id, created, updated, deleted, skipped, first_view_id,
                   calls, prev, ext>>

InitPayload ==
    /\ desired \in {<<spec>> : spec \in PayloadSpecs}
    /\ remote = {}
    /\ nextId = 4
    /\ defaultId = NoId
    /\ pc = "payload"
    /\ run = 1
    /\ existing_by_name = <<>>
    /\ i = 1
    /\ j = 1
    /\ view_id = NoId
    /\ created = <<>>
    /\ updated = <<>>
    /\ deleted = <<>>
    /\ skipped = <<>>
    /\ first_view_id = NoId
    /\ calls = <<>>
    /\ result = NoResult
    /\ prev = NoResult
    /\ ext = <<>>

NextPayload == AsPayload

\* as_payload applied to one spec
SpecPayload == InitPayload /\ [][NextPayload]_vars

(* ============================== claims ================================ *)
\* the caller of the current run holds a report
Returned == result.kind = "report"

\* positions in the call log of the calls of one operation
CallIdx(op) == {k \in 1..Len(calls) : calls[k].op = op}

\* the remote applied the call (a delete answered 404 removed nothing)
Applied(c) == c.op \in {"create", "update", "delete"} /\ c.status \in 200..299

\* a create, update or delete call that failed (404 on delete is no failure)
FailedCrud(c) ==
    /\ c.op \in {"create", "update", "delete"}
    /\ c.status \notin 200..299
    /\ ~(c.op = "delete" /\ c.status = 404)

\* names of the skipped entries with reason missing_title
MissingTitleNames(sk) ==
    {sk[k].name : k \in {m \in 1..Len(sk) : sk[m].reason = "missing_title"}}

\* number of missing_title entries for a name
SkipCount(sk, n) ==
    Cardinality({m \in 1..Len(sk) : sk[m].reason = "missing_title" /\ sk[m].name = n})

\* number of desired specs of a name
SpecCount(n) == Cardinality({k \in 1..Len(desired) : desired[k].name = n})

(* ---- C1 ---- *)
\* C1 as stated: when sync returns a report, the names on the remote are the
\* names in desired minus the names skipped with reason missing_title.
C1_AsStated ==
    Returned => RemoteNames = desired_names \ MissingTitleNames(result.skipped)

\* C1 (amended): when sync returns a report, the non-empty names on the
\* remote are the names of the desired specs that were not skipped: a name
\* leaves the set only when every spec of that name was skipped.
C1_Completeness ==
    Returned =>
        RemoteNames = {n \in desired_names : SkipCount(result.skipped, n) < SpecCount(n)}

\* a report after a skip, an upsert of the skipped name by a duplicate and a
\* deletion
C1_Witness ==
    /\ Returned
    /\ result.deleted # <<>>
    /\ \E n \in MissingTitleNames(result.skipped) : n \in RemoteNames

(* ---- C2 ---- *)
\* every applied create, update and delete of the run is listed in report r
ReportLists(r) ==
    /\ \A k \in CallIdx("create") : Applied(calls[k]) =>
          \E e \in {r.created[m] : m \in 1..Len(r.created)}
                    \cup {r.updated[m] : m \in 1..Len(r.updated)} :
              e.name = desired[calls[k].idx].name
    /\ \A k \in CallIdx("update") : Applied(calls[k]) =>
          \E m \in 1..Len(r.updated) : r.updated[m].id = calls[k].id
    /\ \A k \in CallIdx("delete") : Applied(calls[k]) =>
          \E m \in 1..Len(r.deleted) : r.deleted[m].id = calls[k].id
    /\ Len(r.created) + Len(r.updated)
          = Cardinality({k \in CallIdx("create") : Applied(calls[k])})
                - Cardinality({k \in CallIdx("update") : ~Applied(calls[k])})
    /\ Len(r.deleted) = Cardinality({k \in CallIdx("delete") : ~FailedCrud(calls[k])})

MissingTitleCount(sk) ==
    Cardinality({m \in 1..Len(sk) : sk[m].reason = "missing_title"})

\* C3: a second run of sync(desired) right after a first one that returned,
\* with no other writer, reports no deletion and no creation, records every
\* non-skipped spec under updated, and has the default candidate id of the
\* first run.
C3_Idempotence ==
    (run >= 2 /\ Returned /\ prev.kind = "report") =>
        /\ result.deleted = <<>>
        /\ result.created = <<>>
        /\ Len(result.updated) = Len(desired) - MissingTitleCount(result.skipped)
        /\ result.default = prev.default

(* ---- C4 ---- *)
\* specs already passed by the upsert loop
Passed == {k \in 1..Len(desired) : k < i}

\* title empty (None or "") and name matching nothing in the snapshot
EmptyTitleNoMatch(k) ==
    /\ desired[k].title \in {NoneTitle, ""}
    /\ \A m \in 1..Len(existing_by_name) : existing_by_name[m].name # desired[k].name

\* C4: every spec the loop has passed whose title is empty and whose name is
\* not in the snapshot has exactly one skipped entry {missing_title, name}
\* (one per such spec) and neither a create nor an update call.
C4_SkipRule ==
    /\ \A k \in Passed : EmptyTitleNoMatch(k) =>
          \A m \in 1..Len(calls) :
              calls[m].op \in {"create", "update"} => calls[m].idx # k
    /\ \A n \in Names :
          SkipCount(skipped, n)
              = Cardinality({k \in Passed : EmptyTitleNoMatch(k) /\ desired[k].name = n})

\* a report with a skipped spec (title None), an upserted spec without title
\* whose name was in the snapshot, and the skip entry in the report
C4_Witness ==
    /\ Returned
    /\ \E k \in 1..Len(desired) : desired[k].title = NoneTitle /\ EmptyTitleNoMatch(k)
    /\ \E m \in CallIdx("create") : desired[calls[m].idx].title = ""
    /\ \E m \in 1..Len(result.skipped) : result.skipped[m].reason = "missing_title"

(* ---- C5 ---- *)
\* number of delete calls of the run for an id
DeleteCalls(id) == Cardinality({k \in CallIdx("delete") : calls[k].id = id})

\* number of entries {id, name} in a deleted list
DeletedEntries(del, id, name) ==
    Cardinality({m \in 1..Len(del) : del[m] = [id |-> id, name |-> name]})

\* a delete answered 404 does not fail the run and leaves its entry
NotFoundIsSuccess ==
    \A k \in CallIdx("delete") : calls[k].status = 404 =>
        /\ ~(pc = "raised" /\ k = Len(calls))
        /\ \E m \in 1..Len(deleted) : deleted[m].id = calls[k].id

SetDefaultFails ==
    /\ pc = "default"
    /\ Len(calls') = Len(calls) + 1
    /\ calls'[Len(calls')].op = "set_default"
    /\ calls'[Len(calls')].status \notin 200..299

\* C6: when the set_default call fails, sync returns a report; created,
\* updated and deleted are what they were before the call and skipped has
\* one more entry, with reason set_default_failed.
C6_DefaultFailureIsolated ==
    [][SetDefaultFails =>
          /\ pc' = "returned"
          /\ result'.kind = "report"
          /\ result'.created = created
          /\ result'.updated = updated
          /\ result'.deleted = deleted
          /\ Len(result'.skipped) = Len(skipped) + 1
          /\ SubSeq(result'.skipped, 1, Len(skipped)) = skipped
          /\ result'.skipped[Len(skipped) + 1].reason = "set_default_failed"]_vars

\* a report after a failed set_default, with an update, a creation and a
\* deletion in it
C6_Witness ==
    /\ Returned
    /\ calls[Len(calls)].op = "set_default"
    /\ calls[Len(calls)].status = 500
    /\ result.updated # <<>>
    /\ result.created # <<>>
    /\ result.deleted # <<>>
    /\ result.skipped[Len(result.skipped)].reason = "set_default_failed"

Upserted ==
    {k \in 1..Len(desired) :
        /\ \E m \in CallIdx("create") : calls[m].idx = k /\ Applied(calls[m])
        /\ \A m \in CallIdx("update") : calls[m].idx = k => Applied(calls[m])}

\* the first of them in input order
FirstUpserted == CHOOSE k \in Upserted : \A q \in Upserted : k <= q

\* C8: the id passed to set_default is the id of the resource of the first
\* spec of desired that completed an upsert, whether that spec was recorded
\* under created or under updated.
C8_DefaultIsFirstUpserted ==
    \A m \in CallIdx("set_default") :
        \E r \in remote :
            r.name = desired[FirstUpserted].name /\ r.id = calls[m].id

(* ---- C9 ---- *)
\* the observed resources, in snapshot order, that satisfy a test
Observed(Test(_)) == SelectSeq(existing_by_name, Test)

\* the ids of the delete calls of the run, in call order
DeleteCallIds ==
    LET dc == SelectSeq(calls, LAMBDA c : c.op = "delete")
    IN [k \in 1..Len(dc) |-> dc[k].id]

CreatesOf(k) == {m \in CallIdx("create") : calls[m].idx = k}

\* pairs of specs of desired with the same name
Duplicates ==
    {p \in (1..Len(desired)) \X (1..Len(desired)) :
        p[1] < p[2] /\ desired[p[1]].name = desired[p[2]].name}

\* C10 as stated: in a run that returns a report, two specs of the same name
\* each get a create call, the second after the first; neither is skipped.
C10_AsStated ==
    Returned =>
        \A p \in Duplicates :
            /\ Cardinality(CreatesOf(p[1])) = 1
            /\ Cardinality(CreatesOf(p[2])) = 1
            /\ \A a \in CreatesOf(p[1]), b \in CreatesOf(p[2]) : a < b

\* C10 (amended): no deduplication: in a run that returns a report, each of
\* two specs of the same name gets its own create call, in input order,
\* unless the missing-title rule skips it (empty title and no resource of
\* that name in the snapshot taken before the first of them was created).
C10_NoDeduplication ==
    Returned =>
        \A p \in Duplicates :
            /\ \A k \in {p[1], p[2]} :
                  Cardinality(CreatesOf(k)) = IF EmptyTitleNoMatch(k) THEN 0 ELSE 1
            /\ \A a \in CreatesOf(p[1]), b \in CreatesOf(p[2]) : a < b

\* a report after two specs of the same name were both upserted, the second
\* updating the resource the first had just created
C10_Witness ==
    /\ Returned
    /\ Len(desired) = 2
    /\ desired[1].name = desired[2].name
    /\ desired[1].name \notin ExistingNames
    /\ CreatesOf(1) # {} /\ CreatesOf(2) # {}
    /\ Len(result.updated) = 2
    /\ result.updated[1].id = result.updated[2].id

(* ---- C11 ---- *)
\* the first run of the end-to-end scenario has returned its report
ScenarioReturned ==
    /\ Len(desired) = 2
    /\ desired[1].name = "A" /\ desired[1].title = "a"
    /\ desired[2].name = "B" /\ desired[2].title = NoneTitle
    /\ existing_by_name = <<[id |-> 1, name |-> "B"], [id |-> 2, name |-> "C"]>>
    /\ run = 1
    /\ Returned

\* names of the entries of a list of the report
EntryNames(lst) == [k \in 1..Len(lst) |-> lst[k].name]

\* C11: in the end-to-end scenario the report has A under created, B under
\* updated, C (id 2) under deleted and nothing skipped, and set_default is
\* called with A's id.
C11_Scenario ==
    ScenarioReturned =>
        /\ EntryNames(result.created) = <<"A">>
        /\ EntryNames(result.updated) = <<"B">>
        /\ result.deleted = <<[id |-> 2, name |-> "C"]>>
        /\ result.skipped = <<>>
        /\ CallIdx("set_default") # {}
        /\ \A m \in CallIdx("set_default") :
              \E r \in remote : r.name = "A" /\ r.id = calls[m].id

\* what the code does in the scenario: no run produces the report of C11;
\* A lands under created only when its create response carries no id, and
\* then set_default is not called with A's id
C11_OutcomeUnreachable ==
    ScenarioReturned =>
        ~(/\ EntryNames(result.created) = <<"A">>
          /\ EntryNames(result.updated) = <<"B">>
          /\ \E m \in CallIdx("set_default") :
                \E r \in remote : r.name = "A" /\ r.id = calls[m].id)

(* ---- C12 ---- *)
\* positions in the call log of the update calls for spec k
UpdatesOf(k) == {m \in CallIdx("update") : calls[m].idx = k}

\* the calls of the log that satisfy a test, in call order
CallsWhere(Test(_)) == SelectSeq(calls, Test)

\* the create responses without an id, as entries, in call order
CreatedByCalls ==
    LET cs == CallsWhere(LAMBDA c : c.op = "create" /\ Applied(c) /\ c.resp_id = NoId)
    IN [k \in 1..Len(cs) |-> [name |-> desired[cs[k].idx].name, id |-> NoId]]

\* the update responses, as entries, in call order
UpdatedByCalls ==
    LET us == CallsWhere(LAMBDA c : c.op = "update" /\ Applied(c))
    IN [k \in 1..Len(us) |-> [name |-> desired[us[k].idx].name, id |-> us[k].id]]

\* C12: every non-skipped spec gets one create(spec, override=true); when
\* and only when the response carries an id, the very next call is the one
\* update(id, spec, refresh_fields=spec.refresh_fields) of that spec, whose
\* response is recorded under updated; otherwise the spec gets no update
\* and the create response is recorded under created.
C12_TwoStepUpsert ==
    /\ \A k \in 1..Len(desired) :
          /\ Cardinality(CreatesOf(k)) <= 1
          /\ (k \in Passed /\ ~EmptyTitleNoMatch(k)) => Cardinality(CreatesOf(k)) = 1
          /\ \A m \in CreatesOf(k) :
                /\ calls[m].override = TRUE
                /\ IF calls[m].resp_id # NoId
                   THEN \/ m = Len(calls) /\ pc = "update" /\ UpdatesOf(k) = {}
                        \/ /\ m < Len(calls)
                           /\ UpdatesOf(k) = {m + 1}
                           /\ calls[m + 1].id = calls[m].resp_id
                           /\ calls[m + 1].refresh_fields = desired[k].refresh_fields
                   ELSE UpdatesOf(k) = {}
    /\ created = CreatedByCalls
    /\ updated = UpdatedByCalls

\* a report after a create without id (recorded under created) and a
\* create with id followed by its update with refresh_fields set
C12_Witness ==
    /\ Returned
    /\ result.created # <<>>
    /\ \E m \in CallIdx("update") : calls[m].refresh_fields /\ Applied(calls[m])
    /\ result.updated # <<>>

(* ---- C13 ---- *)
\* what a call asks for: operation, spec and id
Asked(c) == [op |-> c.op, idx |-> c.idx, id |-> c.id]

\* the id the create response for spec k carried (NoId: none, or no call yet)
RespIdOf(k) ==
    IF CreatesOf(k) = {} THEN NoId
    ELSE calls[CHOOSE m \in CreatesOf(k) : TRUE].resp_id

RECURSIVE ExpectedUpsert(_)
\* the upsert calls from spec k on, given desired, the snapshot and the
\* responses received: create, then update when the response had an id
ExpectedUpsert(k) ==
    IF k > Len(desired) THEN <<>>
    ELSE (IF EmptyTitleNoMatch(k) THEN <<>>
          ELSE <<[op |-> "create", idx |-> k, id |-> NoId]>>
                 \o (IF RespIdOf(k) # NoId
                     THEN <<[op |-> "update", idx |-> k, id |-> RespIdOf(k)]>>
                     ELSE <<>>))
         \o ExpectedUpsert(k + 1)

\* the delete calls: named snapshot entries absent from desired, in order
ExpectedPrune ==
    LET gone == SelectSeq(existing_by_name,
                          LAMBDA dv : /\ dv.name # NoName /\ dv.id # NoId
                                      /\ \A k \in 1..Len(desired) :
                                            desired[k].name # dv.name)
    IN [k \in 1..Len(gone) |-> [op |-> "delete", idx |-> 0, id |-> gone[k].id]]

\* the set_default call: the id of the first update that succeeded, if any
ExpectedDefault ==
    LET us == CallsWhere(LAMBDA c : c.op = "update" /\ Applied(c))
    IN IF us = <<>> THEN <<>>
       ELSE <<[op |-> "set_default", idx |-> 0, id |-> us[1].id]>>

ExpectedCalls ==
    <<[op |-> "list", idx |-> 0, id |-> NoId]>>
        \o ExpectedUpsert(1) \o ExpectedPrune \o ExpectedDefault

\* list 0, create and update 1, delete 2, set_default 3
Phase(op) ==
    CASE op = "list" -> 0
      [] op \in {"create", "update"} -> 1
      [] op = "delete" -> 2
      [] op = "set_default" -> 3

\* C13: the calls of a run are, in order, one list, then for each desired
\* spec in input order its create and its update (if any), then the deletes,
\* then at most one set_default, last and only with a default candidate; the
\* sequence is the one determined by desired, the snapshot and the responses.
C13_CallOrder ==
    /\ calls # <<>> => (calls[1].op = "list" /\ CallIdx("list") = {1})
    /\ \A a, b \in 1..Len(calls) : a < b =>
          /\ Phase(calls[a].op) <= Phase(calls[b].op)
          /\ (calls[a].op = "create" /\ calls[b].op = "create") =>
                calls[a].idx < calls[b].idx
    /\ \A m \in CallIdx("update") :
          calls[m - 1].op = "create" /\ calls[m - 1].idx = calls[m].idx
    /\ \A m \in CallIdx("set_default") :
          m = Len(calls) /\ calls[m].id = first_view_id /\ first_view_id # NoId
    /\ Len(calls) <= Len(ExpectedCalls)
    /\ \A m \in 1..Len(calls) : Asked(calls[m]) = ExpectedCalls[m]
    /\ Returned => Len(calls) = Len(ExpectedCalls)

\* a report after a run that made every kind of call, with two updates
C13_Witness ==
    /\ Returned
    /\ Cardinality(CallIdx("update")) = 2
    /\ calls[3].id # calls[5].id
    /\ CallIdx("delete") # {}
    /\ CallIdx("set_default") # {}

(* ---- C14 ---- *)
\* the last request of the log
LastCall == calls[Len(calls)]

\* C14: create answered with a status outside 2xx fails with an error that
\* carries that status, and every call of create sends exactly one POST.
C14_CreateFailsOnNon2xx ==
    /\ []((calls # <<>> /\ LastCall.op = "create") =>
            /\ LastCall.method = "POST"
            /\ LastCall.status \notin 200..299 =>
                  (result.kind = "error" /\ result.status = LastCall.status))
    /\ [][(pc = "http" /\ calls' # calls /\ calls'[Len(calls')].op = "create")
              => Len(calls') = Len(calls) + 1]_vars

(* ---- C15 ---- *)
\* C15: delete answered 200, 202, 204 or 404 returns; answered with any
\* other status outside 2xx it fails with an error carrying that status.
C15_DeleteStatuses ==
    (calls # <<>> /\ LastCall.op = "delete") =>
        /\ LastCall.status \in {200, 202, 204, 404} => result.kind = "returned"
        /\ (LastCall.status \notin 200..299 /\ LastCall.status # 404) =>
              result = [kind |-> "error", op |-> "delete", status |-> LastCall.status]

\* delete has returned after a 404 that followed a delete failed by a 409
C15_Witness ==
    /\ pc = "http"
    /\ Len(calls) = 2
    /\ calls[1].op = "delete" /\ calls[1].status = 409
    /\ LastCall.op = "delete" /\ LastCall.status = 404
    /\ result.kind = "returned"

\* ---------------------------------------------------------------------
\* C17: every request of sync carries an Authorization header; the POSTs
\* of create, update and set_default and the DELETE of delete carry the
\* kbn-xsrf header too; the GET of list does not.
Mutating == {"create", "update", "delete", "set_default"}

MethodOf(op) == IF op = "list" THEN "GET" ELSE IF op = "delete" THEN "DELETE" ELSE "POST"

C17_Headers ==
    \A k \in 1..Len(calls) :
        /\ calls[k].op \in Mutating \cup {"list"}
        /\ calls[k].method = MethodOf(calls[k].op)
        /\ "Authorization" \in calls[k].headers
        /\ calls[k].op \in Mutating <=> "kbn-xsrf" \in calls[k].headers

\* a returned run that issued all five kinds of request
C17_Witness ==
    /\ Returned
    /\ \A op \in Mutating \cup {"list"} : \E k \in 1..Len(calls) : calls[k].op = op

\* ---------------------------------------------------------------------
\* C16: title derivation.
Built == pc = "built"

Letters == Alphabet \ (NonWord \cup {"_"})

\* the words of the name (its maximal runs of letters), lowercased and
\* joined with single underscores, read off in one pass
RECURSIVE Joined(_, _, _)
Joined(t, acc, gap) ==
    IF t = <<>> THEN acc
    ELSE IF Head(t) \notin Letters THEN Joined(Tail(t), acc, acc # <<>>)
    ELSE Joined(Tail(t),
                acc \o (IF gap THEN <<"_">> ELSE <<>>) \o Lower(<<Head(t)>>),
                FALSE)

WellShaped(t) ==
    /\ t # <<>> => (t[1] # "_" /\ t[Len(t)] # "_")
    /\ \A k \in 1..(Len(t) - 1) : ~(t[k] = "_" /\ t[k + 1] = "_")

HasLetter(t) == \E k \in 1..Len(t) : t[k] \in Letters

SnapshotPrunable ==
    {m \in 1..Len(existing_by_name) :
        /\ existing_by_name[m].name # NoName
        /\ existing_by_name[m].name \notin desired_names
        /\ existing_by_name[m].id # NoId}

C18_StaleSnapshot ==
    /\ calls # <<>> => calls[1].op = "list"
    /\ \A k \in 2..Len(calls) : calls[k].op # "list"
    /\ \A k \in CallIdx("delete") :
          \E m \in SnapshotPrunable : existing_by_name[m].id = calls[k].id
    /\ pc \in {"default", "returned"} =>
          \A m \in SnapshotPrunable : DeleteCalls(existing_by_name[m].id) = 1

\* sync deleted (status 200) a resource of a name absent from desired that
\* another actor had recreated after the snapshot was taken: the writes of
\* the other actor all follow list; this one put the id on the remote, no
\* other actor deleted it, and it is gone
C18_Witness ==
    \E k \in CallIdx("delete"), w \in 1..Len(ext) :
        /\ calls[k].status = StOk
        /\ ext[w].op = "create"
        /\ ext[w].id = calls[k].id
        /\ ext[w].name \notin desired_names
        /\ calls[k].id \notin RemoteIds
        /\ \A v \in 1..Len(ext) : ~(ext[v].op = "delete" /\ ext[v].id = calls[k].id)

\* ---------------------------------------------------------------------
\* C19: no delete call is issued for an id whose snapshot name is a desired
\* name, and no name of the deleted list is the name of a desired spec,
\* skipped or not.
C19_NeverDeletesDesired ==
    /\ \A k \in CallIdx("delete"), m \in 1..Len(existing_by_name) :
          existing_by_name[m].id = calls[k].id =>
              existing_by_name[m].name \notin desired_names
    /\ \A m \in 1..Len(deleted) : deleted[m].name \notin desired_names
    /\ Returned => \A m \in 1..Len(result.deleted) :
                      result.deleted[m].name \notin desired_names

\* a report with a deletion, a skipped spec and an upserted spec whose name
\* was in the snapshot
C19_Witness ==
    /\ Returned
    /\ result.deleted # <<>>
    /\ MissingTitleCount(result.skipped) >= 1
    /\ \E k \in CallIdx("create") : desired[calls[k].idx].name \in ExistingNames

\* ---------------------------------------------------------------------
\* C20: in a returned report every element of desired is accounted for
\* once: len(created) + len(updated) + the number of missing_title entries
\* is len(desired); each list is in desired input order; skipped has at
\* most one set_default_failed entry, and it is the last one.
Outcomes == {"created", "updated", "skipped"}

\* the names of the desired specs an assignment gives an outcome, in order
NamesWith(f, outcome) ==
    LET idx == SelectSeq([k \in 1..Len(desired) |-> k], LAMBDA k : f[k] = outcome)
    IN [m \in 1..Len(idx) |-> desired[idx[m]].name]

MissingTitleEntries(sk) == SelectSeq(sk, LAMBDA entry : entry.reason = "missing_title")

DefaultFailedAt(sk) == {m \in 1..Len(sk) : sk[m].reason = "set_default_failed"}

C20_ReportAccounting ==
    Returned =>
        /\ Len(result.created) + Len(result.updated)
              + MissingTitleCount(result.skipped) = Len(desired)
        /\ \E f \in [1..Len(desired) -> Outcomes] :
              /\ EntryNames(result.created) = NamesWith(f, "created")
              /\ EntryNames(result.updated) = NamesWith(f, "updated")
              /\ EntryNames(MissingTitleEntries(result.skipped)) = NamesWith(f, "skipped")
        /\ DefaultFailedAt(result.skipped) \subseteq {Len(result.skipped)}

\* a report of two specs, one skipped and one updated, whose set_default
\* failed
C20_Witness ==
    /\ Returned
    /\ Len(desired) = 2
    /\ Len(result.updated) = 1
    /\ Len(result.skipped) = 2
    /\ result.skipped[1].reason = "missing_title"
    /\ result.skipped[2].reason = "set_default_failed"

\* ---------------------------------------------------------------------
\* C21: when the list call of a run is answered with a non-2xx status, sync
\* raises that error; list is the only call of the run, the step that
\* issues it leaves the remote collection and its default as they were, and
\* the run takes no further step.
ListFailed ==
    calls # <<>> /\ calls[1].op = "list" /\ calls[1].status \notin 200..299

C21_ListFailureNoEffect ==
    /\ [](ListFailed =>
            /\ Len(calls) = 1
            /\ pc = "raised"
            /\ result = Raised("list", calls[1].status))
    /\ [][(calls = <<>> /\ ListFailed') => (remote' = remote /\ defaultId' = defaultId)]_vars
    /\ [][~ListFailed]_vars

\* a failed list (status 301, 404 or 500) of a run that had a spec to
\* upsert and a resource to prune
C21_Witness ==
    /\ ListFailed
    /\ pc = "raised"
    /\ calls[1].status = StMoved
    /\ desired # <<>>
    /\ \E r \in remote : r.name # NoName /\ r.name \notin desired_names

====
